---- MODULE Spec2Model ----
(***************************************************************************)
(* The chat window of the Gemini Creative Suite (components/ChatWindow.tsx) *)
(* and the service it calls (services/geminiService), as a state machine.  *)
(*                                                                         *)
(* A step is what the JavaScript event loop runs without interruption: a   *)
(* handler from its invocation to its first await, or the continuation of  *)
(* an await up to the next one.  React state updates are applied in the    *)
(* order they are queued, and a handler invoked by an event sees the state *)
(* of the latest render, so a step reads the view state directly; values a *)
(* handler keeps in its closure across an await are fields of its task.    *)
(* A call of the conversation store takes effect at the instant its        *)
(* promise settles.                                                        *)
(*                                                                         *)
(* Texts are sequences of characters.  A value of type T | null is a       *)
(* sequence of length 0 (null) or 1.  Message and conversation ids are     *)
(* strings, Date.now().toString() being the clock's value in decimal.      *)
(***************************************************************************)
EXTENDS Integers, Sequences, FiniteSets, TLC

\* ------------------------------------------------------------------ bounds
MaxRequests == 2     \* accepted handleSubmit / handleGenerateImage calls
MaxEvents == 2       \* other events: edits, file picks, recalls, prop changes, ticks
MaxFragments == 2    \* fragments the remote stream delivers for one request

\* ------------------------------------------------------------- constants
TitleLimit == 40
DefaultNumImages == 4

Null == "null"
None == << >>
Some(x) == << x >>

DefaultModel == "gemini-2.5-flash"
ChatModels == {"gemini-2.5-flash", "gemini-2.5-pro"}

DefaultImagenModel == "imagen-3.0-generate-002"
DefaultAspectRatio == "3:4"

InitialId == "initial"

\* The greeting is never measured or cut, so it is kept as one token.
GreetingText ==
    << "Hello! I'm Gemini. How can I assist you today? You can ask me anything or generate an image!" >>

GenerateFailedText == <<"S", "o", "r", "r", "y", ",", " ", "I", " ", "f", "a", "i", "l", "e", "d", " ", "t", "o", " ", "g", "e", "n", "e", "r", "a", "t", "e", " ", "t", "h", "e", " ", "i", "m", "a", "g", "e", ".", " ", "P", "l", "e", "a", "s", "e", " ", "t", "r", "y", " ", "a", "g", "a", "i", "n", ".">>

StreamErrorText == <<"S", "o", "r", "r", "y", ",", " ", "I", " ", "e", "n", "c", "o", "u", "n", "t", "e", "r", "e", "d", " ", "a", "n", " ", "e", "r", "r", "o", "r", ".", " ", "P", "l", "e", "a", "s", "e", " ", "t", "r", "y", " ", "a", "g", "a", "i", "n", ".">>

GeneratePrefix == <<"G", "e", "n", "e", "r", "a", "t", "e", " ", "i", "m", "a", "g", "e", ":", " ", "\"">>

GenerateSuffix == <<"\"">>

NewChat == <<"N", "e", "w", " ", "C", "h", "a", "t">>

Ellipsis == <<".", ".", ".">>

\* ------------------------------------------------------------ the inputs
\* What the user can type in the message box and in the prompt box.
Inputs == { <<" ">>, <<"h", "i">> }
Prompts == { <<" ">>, <<"c", "a", "t">> }

\* The file the user can pick.
Files == { [type |-> "image/png", data |-> "iVBOR"] }

\* Imagen models, aspect ratios and image counts the panel offers.
ImagenModels == {"imagen-3.0-generate-002", "imagen-4.0-generate-001"}
AspectRatios == {"3:4", "1:1"}
NumImages == {4, 1}

\* What the remote model can answer a generation request with: a failure,
\* no image, the bytes of two images.
ImageResponses == { None, Some(<< >>), Some(<<"AAA", "BBB">>) }

\* The k-th fragment the remote stream delivers.
Letters == <<"a", "b", "c", "d", "e", "f">>
Fragment(k) == << Letters[k] >>

\* ------------------------------------------------------------- variables
VARIABLES
    messages,                  \* useState<ChatMessage[]>
    input,                     \* useState('')
    isLoading,                 \* useState(false)
    model,                     \* useState<GeminiChatModel>
    uploadedImage,             \* useState<{url, base64, mimeType} | null>
    showGenerationPanel,       \* useState(false)
    genPrompt,                 \* useState('')
    genAspectRatio,            \* useState<AspectRatio>('3:4')
    genModel,                  \* useState<ImagenModel>
    genNumImages,              \* useState(4)
    currentConversationIdRef,  \* useRef<string | null>(conversationId)
    conversationId,            \* the prop
    store,                     \* dbService: id -> conversation
    tasks,                     \* the async functions suspended at an await
    now,                       \* Date.now()
    created,                   \* the ids onConversationCreated was called with
    uncaught,                  \* rejected promises no handler caught
    lastEvent,                 \* the step taken last
    used                       \* how much of each bound the run has used

view == << messages, input, isLoading, model, uploadedImage, showGenerationPanel,
           genPrompt, genAspectRatio, genModel, genNumImages >>

vars == << messages, input, isLoading, model, uploadedImage, showGenerationPanel,
           genPrompt, genAspectRatio, genModel, genNumImages,
           currentConversationIdRef, conversationId, store, tasks, now, created,
           uncaught, lastEvent, used >>

\* --------------------------------------------------------------- helpers
RECURSIVE Concat(_)
Concat(ss) == IF ss = << >> THEN << >> ELSE Head(ss) \o Concat(Tail(ss))

Remove(s, i) == SubSeq(s, 1, i - 1) \o SubSeq(s, i + 1, Len(s))

\* String.prototype.trim() leaves nothing: every character is white space.
TrimIsEmpty(text) == \A i \in 1 .. Len(text) : text[i] = " "

\* String.prototype.substring(0, n)
Substring(text, n) == SubSeq(text, 1, IF Len(text) < n THEN Len(text) ELSE n)

TextPart(text) == [type |-> "text", text |-> text]

Greeting == [id |-> InitialId, author |-> "MODEL", parts |-> << TextPart(GreetingText) >>]

\* ------------------------------------------------- the conversation store
\* dbService keeps conversations keyed by their id.
StoredChat ==
    [id |-> "c1", title |-> <<"o", "l", "d">>,
     messages |-> << [id |-> "m1", author |-> "USER", content |-> <<"y", "o">>],
                     [id |-> "m2", author |-> "MODEL"],
                     [id |-> "m3", author |-> "MODEL",
                      parts |-> << [type |-> "imageGenerationResult",
                                    images |-> << [url |-> <<"data:", "image/png",
                                                             ";base64,", "CCC">>] >>,
                                    prompt |-> <<"d", "o", "g">>,
                                    parameters |->
                                        [model |-> "imagen-4.0-generate-001",
                                         aspectRatio |-> "1:1",
                                         numberOfImages |-> 1]] >>] >>,
     createdAt |-> 0, modelUsed |-> "gemini-2.5-pro", isFavorite |-> FALSE,
     type |-> "chat"]

StoredOther ==
    [id |-> "img", title |-> <<"p", "i", "c">>, messages |-> << >>,
     createdAt |-> 0, modelUsed |-> "imagen-4.0-generate-001", isFavorite |-> FALSE,
     type |-> "image"]

InitialStore == [id \in {"c1", "img"} |-> IF id = "c1" THEN StoredChat ELSE StoredOther]

\* The ids the parent can pass besides those it was told of: none, a stored
\* chat conversation, a stored conversation of another kind, an id of nothing.
KnownIds == {Null, "c1", "img", "gone"}

\* dbService.getConversation(id)
GetConversation(db, id) == IF id \in DOMAIN db THEN Some(db[id]) ELSE None

\* dbService.addOrUpdateConversation(conversation)
AddOrUpdateConversation(db, conversation) ==
    [id \in DOMAIN db \cup {conversation.id} |->
        IF id = conversation.id THEN conversation ELSE db[id]]

\* convo && convo.type === 'chat'
IsChat(convo) == convo # None /\ convo[1].type = "chat"

\* ----------------------------------------------------- loadConversation
MigrateMessageDropsContent(msg) ==
    IF "parts" \in DOMAIN msg THEN msg
    ELSE [f \in DOMAIN msg \cup {"parts"} |->
             IF f = "parts" THEN << TextPart(<< >>) >> ELSE msg[f]]

\* The migration of one stored message to the parts format.
MigrateMessage(msg) ==
    IF "parts" \in DOMAIN msg THEN msg
    ELSE IF "content" \in DOMAIN msg
         THEN [f \in DOMAIN msg \cup {"parts"} |->
                  IF f = "parts" THEN << TextPart(msg.content) >> ELSE msg[f]]
         ELSE [f \in DOMAIN msg \cup {"parts"} |->
                  IF f = "parts" THEN << TextPart(<< >>) >> ELSE msg[f]]

MigratedMessages(msgs) == [i \in 1 .. Len(msgs) |-> MigrateMessage(msgs[i])]

LoadedMessagesAlwaysGreets(id, convo) ==
    IF id # Null /\ IsChat(convo) THEN MigratedMessages(convo[1].messages)
    ELSE << Greeting >>

\* The message list a load of conversation `id` sets, `convo` being what
\* getConversation answered (not asked when there is no id).
LoadedMessages(id, convo) ==
    IF id # Null
    THEN IF IsChat(convo) THEN MigratedMessages(convo[1].messages) ELSE << >>
    ELSE << Greeting >>

\* The chat model a load sets.
LoadedModel(id, convo) ==
    IF id # Null /\ IsChat(convo) THEN convo[1].modelUsed ELSE DefaultModel

\* ----------------------------------------------------------- saveMessage
\* The title of a conversation created for `message`.
TitleText(message) ==
    LET texts == SelectSeq(message.parts, LAMBDA p : p.type = "text")
    IN  IF texts = << >> \/ texts[1].text = << >> THEN NewChat ELSE texts[1].text

TitleUntruncated(message) == TitleText(message)

\* titleText.substring(0, 40) + (titleText.length > 40 ? '...' : '')
Title(message) ==
    LET t == TitleText(message)
    IN  Substring(t, TitleLimit) \o (IF Len(t) > TitleLimit THEN Ellipsis ELSE << >>)

NewConversation(convoId, message, modelUsed, time) ==
    [id |-> convoId, title |-> Title(message), messages |-> << message >>,
     createdAt |-> time, modelUsed |-> modelUsed, isFavorite |-> FALSE,
     type |-> "chat"]

\* existingConvo.messages.push(message)
Push(convo, message) == [convo EXCEPT !.messages = Append(@, message)]

SaveMessageCallKeepsRef(ref, message, modelUsed, time) ==
    IF ref = Null
    THEN [ref |-> ref, pc |-> "addOrUpdateConversation",
          convoId |-> ToString(time),
          conv |-> Some(NewConversation(ToString(time), message, modelUsed, time)),
          isNew |-> TRUE, message |-> message]
    ELSE [ref |-> ref, pc |-> "getConversation", convoId |-> ref,
          conv |-> None, isNew |-> FALSE, message |-> message]

\* saveMessage up to its first await: the value of the ref it leaves, the
\* store call it is suspended at and what that call carries.
SaveMessageCall(ref, message, modelUsed, time) ==
    IF ref = Null
    THEN [ref |-> ToString(time), pc |-> "addOrUpdateConversation",
          convoId |-> ToString(time),
          conv |-> Some(NewConversation(ToString(time), message, modelUsed, time)),
          isNew |-> TRUE, message |-> message]
    ELSE [ref |-> ref, pc |-> "getConversation", convoId |-> ref,
          conv |-> None, isNew |-> FALSE, message |-> message]

\* ---------------------------------------------------------- geminiService
\* `data:${mimeType};base64,${img.image.imageBytes}`
DataUrl(mimeType, bytes) == <<"data:", mimeType, ";base64,", bytes>>

\* outputMimeType || 'image/png'
MimeTypeOf(params) ==
    IF "outputMimeType" \in DOMAIN params THEN params.outputMimeType ELSE "image/png"

\* geminiService.generateImage: `response` is what ai.models.generateImages
\* answers, None when it throws and else the bytes of the generated images.
GenerateImage(prompt, params, response) ==
    IF response = None THEN None
    ELSE IF Len(response[1]) > 0
         THEN Some([i \in 1 .. Len(response[1]) |->
                       DataUrl(MimeTypeOf(params), response[1][i])])
         ELSE None

\* ------------------------------------------------------------ file input
\* FileReader.readAsDataURL: "data:<type>;base64,<data>", by token.
ReadAsDataURL(file) == <<"data:", file.type, ";base64", ",", file.data>>

\* String.prototype.split(sep)
RECURSIVE Split(_, _)
Split(s, sep) ==
    IF \A i \in 1 .. Len(s) : s[i] # sep THEN << s >>
    ELSE LET k == CHOOSE i \in 1 .. Len(s) :
                     s[i] = sep /\ \A j \in 1 .. i - 1 : s[j] # sep
         IN  << SubSeq(s, 1, k - 1) >> \o Split(SubSeq(s, k + 1, Len(s)), sep)

FileToBase64(file) == Split(ReadAsDataURL(file), ",")[2]

\* URL.createObjectURL(file)
CreateObjectURL(file) == <<"blob:", file.data>>

\* ------------------------------------------------------------ the events
Event(op) ==
    [op |-> op, accepted |-> TRUE, id |-> Null, convo |-> None, message |-> None,
     kind |-> "", phase |-> 0, start |-> Null, startedNew |-> FALSE,
     switched |-> FALSE, result |-> None, args |-> None]

Rejected(op) == [Event(op) EXCEPT !.accepted = FALSE]

LoadEvent(id, convo) == [Event("loadConversation") EXCEPT !.id = id, !.convo = convo]

SaveEvent(t) ==
    [Event("saveMessage") EXCEPT !.id = t.convoId, !.message = Some(t.message),
                                 !.kind = t.kind, !.phase = t.phase,
                                 !.start = t.startConvoId,
                                 !.startedNew = t.startedNew,
                                 !.switched = t.switched]

\* -------------------------------------------------------------- the tasks
LoadTask(id) == [kind |-> "loadConversation", pc |-> "getConversation", conversationId |-> id]

FileTask(file) == [kind |-> "handleFileChange", pc |-> "fileToBase64", file |-> file]

\* A handleSubmit or handleGenerateImage suspended in its first saveMessage.
\* chunks, startConvoId, startedNew and switched are history: what the stream
\* has yielded, the conversation the first saveMessage saved to and whether
\* it created it, and whether the parent has passed another conversationId
\* since.
HandlerTask(kind, userMessage, history, modelUsed, prompt, params, call) ==
    [kind |-> kind, pc |-> call.pc, phase |-> 1, userMessage |-> userMessage,
     updatedMessages |-> history, model |-> modelUsed, genPrompt |-> prompt,
     params |-> params, modelMessageId |-> Null, fullResponse |-> << >>,
     chunks |-> << >>, remote |-> "idle", convoId |-> call.convoId,
     conv |-> call.conv, isNew |-> call.isNew, message |-> call.message,
     startConvoId |-> call.convoId, startedNew |-> call.isNew, switched |-> FALSE]

IsHandler(t) == t.kind \in {"handleSubmit", "handleGenerateImage"}

Suspended(t, call) ==
    [t EXCEPT !.pc = call.pc, !.convoId = call.convoId, !.conv = call.conv,
              !.isNew = call.isNew, !.message = call.message]

\* ------------------------------------------------------------------- Init
\* The component after its mount: the effect has run for the conversationId
\* it was given, which completes the load at once when there is no id.
Init ==
    /\ conversationId \in {Null, "c1", "gone"}
    /\ currentConversationIdRef = conversationId
    /\ messages = IF conversationId = Null THEN LoadedMessages(Null, None) ELSE << >>
    /\ input = << >>
    /\ isLoading = FALSE
    /\ model = DefaultModel
    /\ uploadedImage = None
    /\ showGenerationPanel = FALSE
    /\ genPrompt = << >>
    /\ genAspectRatio = DefaultAspectRatio
    /\ genModel = DefaultImagenModel
    /\ genNumImages = DefaultNumImages
    /\ store = InitialStore
    /\ tasks = IF conversationId = Null THEN << >> ELSE << LoadTask(conversationId) >>
    /\ now = 1
    /\ created = << >>
    /\ uncaught = 0
    /\ lastEvent = IF conversationId = Null THEN LoadEvent(Null, None)
                   ELSE Event("conversationIdChange")
    /\ used = [requests |-> 0, events |-> 0]

genParams == << genAspectRatio, genModel, genNumImages >>
outside == << currentConversationIdRef, conversationId, store, tasks, now, created,
              uncaught >>

\* The step is one of the run's requests, or one of its other events.
UseRequest == used.requests < MaxRequests /\ used' = [used EXCEPT !.requests = @ + 1]
UseEvent == used.events < MaxEvents /\ used' = [used EXCEPT !.events = @ + 1]

\* The tasks after the parent has passed conversationId `id`.
Switched(ts, id) ==
    [i \in 1 .. Len(ts) |->
        IF IsHandler(ts[i]) /\ ts[i].startConvoId # id
        THEN [ts[i] EXCEPT !.switched = TRUE] ELSE ts[i]]

\* ------------------------------------------------- the conversationId prop
\* The effect of a new conversationId: the ref follows it and loadConversation
\* starts, which runs to its end at once when there is no id.
ConversationIdChange(id) ==
    /\ id # conversationId
    /\ conversationId' = id
    /\ currentConversationIdRef' = id
    /\ UseEvent
    /\ IF id # Null
       THEN /\ tasks' = Append(Switched(tasks, id), LoadTask(id))
            /\ lastEvent' = Event("conversationIdChange")
            /\ UNCHANGED << messages, model, input, uploadedImage, showGenerationPanel >>
       ELSE /\ messages' = LoadedMessages(Null, None)
            /\ model' = LoadedModel(Null, None)
            /\ input' = << >>
            /\ uploadedImage' = None
            /\ showGenerationPanel' = FALSE
            /\ lastEvent' = LoadEvent(Null, None)
            /\ tasks' = Switched(tasks, id)
    /\ UNCHANGED << isLoading, genPrompt, genParams, store, now, created, uncaught >>

\* loadConversation resumes with what getConversation answered.
LoadConversation(i) ==
    /\ i \in 1 .. Len(tasks)
    /\ tasks[i].kind = "loadConversation"
    /\ LET id == tasks[i].conversationId
           convo == GetConversation(store, id)
       IN  /\ messages' = LoadedMessages(id, convo)
           /\ model' = LoadedModel(id, convo)
           /\ lastEvent' = LoadEvent(id, convo)
    /\ input' = << >>
    /\ uploadedImage' = None
    /\ showGenerationPanel' = FALSE
    /\ tasks' = Remove(tasks, i)
    /\ UNCHANGED << isLoading, genPrompt, genParams, currentConversationIdRef,
                    conversationId, store, now, created, uncaught, used >>

\* ------------------------------------------------------- the input fields
\* The message box: rendered when the panel is closed, disabled while loading.
\* A field's onChange fires when its value changes.
SetInput(text) ==
    /\ ~showGenerationPanel
    /\ ~isLoading
    /\ text # input
    /\ input' = text
    /\ UseEvent
    /\ lastEvent' = Event("edit")
    /\ UNCHANGED << messages, isLoading, model, uploadedImage, showGenerationPanel,
                    genPrompt, genParams, outside >>

\* The model selector and its disabled attribute.
ModelSelectDisabled ==
    \/ Len(messages) > 1 /\ \E i \in 1 .. Len(messages) : messages[i].id # InitialId
    \/ showGenerationPanel

SetModel(m) ==
    /\ ~ModelSelectDisabled
    /\ m # model
    /\ model' = m
    /\ UseEvent
    /\ lastEvent' = [Event("edit") EXCEPT !.args = Some([model |-> m])]
    /\ UNCHANGED << messages, input, isLoading, uploadedImage, showGenerationPanel,
                    genPrompt, genParams, outside >>

\* handleFileChange up to its await of fileToBase64.
HandleFileChange(file) ==
    /\ ~showGenerationPanel
    /\ UseEvent
    /\ tasks' = Append(tasks, FileTask(file))
    /\ lastEvent' = Event("handleFileChange")
    /\ UNCHANGED << view, currentConversationIdRef, conversationId, store, now,
                    created, uncaught >>

FileReadKeepsPanel(i) ==
    /\ i \in 1 .. Len(tasks)
    /\ tasks[i].kind = "handleFileChange"
    /\ uploadedImage' = Some([url |-> CreateObjectURL(tasks[i].file),
                              base64 |-> FileToBase64(tasks[i].file),
                              mimeType |-> tasks[i].file.type])
    /\ tasks' = Remove(tasks, i)
    /\ lastEvent' = [Event("fileToBase64") EXCEPT
                        !.args = Some([panelWasOpen |-> showGenerationPanel])]
    /\ UNCHANGED << messages, input, isLoading, model, showGenerationPanel, genPrompt,
                    genParams, currentConversationIdRef, conversationId, store, now,
                    created, uncaught, used >>

\* handleFileChange resumes with the file's base64 text.
FileRead(i) ==
    /\ i \in 1 .. Len(tasks)
    /\ tasks[i].kind = "handleFileChange"
    /\ uploadedImage' = Some([url |-> CreateObjectURL(tasks[i].file),
                              base64 |-> FileToBase64(tasks[i].file),
                              mimeType |-> tasks[i].file.type])
    /\ showGenerationPanel' = FALSE
    /\ tasks' = Remove(tasks, i)
    /\ lastEvent' = [Event("fileToBase64") EXCEPT
                        !.args = Some([panelWasOpen |-> showGenerationPanel])]
    /\ UNCHANGED << messages, input, isLoading, model, genPrompt, genParams,
                    currentConversationIdRef, conversationId, store, now, created,
                    uncaught, used >>

\* The remove button of the attachment preview.
RemoveAttachment ==
    /\ ~showGenerationPanel
    /\ uploadedImage # None
    /\ uploadedImage' = None
    /\ UseEvent
    /\ lastEvent' = Event("edit")
    /\ UNCHANGED << messages, input, isLoading, model, showGenerationPanel,
                    genPrompt, genParams, outside >>

\* The "Generate image" button of the form.
OpenPanel ==
    /\ ~showGenerationPanel
    /\ showGenerationPanel' = TRUE
    /\ uploadedImage' = None
    /\ UseEvent
    /\ lastEvent' = Event("edit")
    /\ UNCHANGED << messages, input, isLoading, model, genPrompt, genParams, outside >>

\* The panel's Cancel button.
CancelPanel ==
    /\ showGenerationPanel
    /\ showGenerationPanel' = FALSE
    /\ UseEvent
    /\ lastEvent' = Event("edit")
    /\ UNCHANGED << messages, input, isLoading, model, uploadedImage, genPrompt,
                    genParams, outside >>

\* The panel's prompt box and its three parameter fields.
SetGenPrompt(text) ==
    /\ showGenerationPanel
    /\ text # genPrompt
    /\ genPrompt' = text
    /\ UseEvent
    /\ lastEvent' = Event("edit")
    /\ UNCHANGED << messages, input, isLoading, model, uploadedImage,
                    showGenerationPanel, genParams, outside >>

SetGenModel(m) ==
    /\ showGenerationPanel
    /\ m # genModel
    /\ genModel' = m
    /\ UseEvent
    /\ lastEvent' = Event("edit")
    /\ UNCHANGED << messages, input, isLoading, model, uploadedImage,
                    showGenerationPanel, genPrompt, genAspectRatio, genNumImages,
                    outside >>

SetGenAspectRatio(ar) ==
    /\ showGenerationPanel
    /\ ar # genAspectRatio
    /\ genAspectRatio' = ar
    /\ UseEvent
    /\ lastEvent' = Event("edit")
    /\ UNCHANGED << messages, input, isLoading, model, uploadedImage,
                    showGenerationPanel, genPrompt, genModel, genNumImages, outside >>

SetGenNumImages(n) ==
    /\ showGenerationPanel
    /\ n # genNumImages
    /\ genNumImages' = n
    /\ UseEvent
    /\ lastEvent' = Event("edit")
    /\ UNCHANGED << messages, input, isLoading, model, uploadedImage,
                    showGenerationPanel, genPrompt, genAspectRatio, genModel, outside >>

\* Time passes.
Tick ==
    /\ now' = now + 1
    /\ UseEvent
    /\ lastEvent' = Event("tick")
    /\ UNCHANGED << view, currentConversationIdRef, conversationId, store, tasks,
                    created, uncaught >>

\* ---------------------------------------------------------- handleSubmit
SubmitRejectedWhileIdleOnly == TrimIsEmpty(input) /\ uploadedImage = None

SubmitRejectedUntrimmed == (input = << >> /\ uploadedImage = None) \/ isLoading

\* if (!input.trim() && !uploadedImage || isLoading) return;
SubmitRejected == (TrimIsEmpty(input) /\ uploadedImage = None) \/ isLoading

UserParts ==
    (IF uploadedImage # None
     THEN << [type |-> "image", url |-> uploadedImage[1].url,
              base64 |-> uploadedImage[1].base64,
              mimeType |-> uploadedImage[1].mimeType] >>
     ELSE << >>)
    \o (IF ~TrimIsEmpty(input) THEN << TextPart(input) >> ELSE << >>)

WithoutInitialKeepsAll(msgs) == msgs

\* messages.filter(m => m.id !== 'initial')
WithoutInitial(msgs) == SelectSeq(msgs, LAMBDA m : m.id # InitialId)

\* handleSubmit up to the await in its first saveMessage.
HandleSubmit ==
    /\ ~showGenerationPanel
    /\ IF SubmitRejected
       THEN /\ lastEvent' = Rejected("handleSubmit")
            /\ UNCHANGED << view, outside, used >>
       ELSE /\ UseRequest
            /\ LET userMessage == [id |-> ToString(now), author |-> "USER",
                                   parts |-> UserParts]
                   updatedMessages == Append(WithoutInitial(messages), userMessage)
                   call == SaveMessageCall(currentConversationIdRef, userMessage,
                                           model, now)
               IN  /\ messages' = updatedMessages
                   /\ currentConversationIdRef' = call.ref
                   /\ tasks' = Append(tasks,
                         HandlerTask("handleSubmit", userMessage, updatedMessages,
                                     model, << >>, << >>, call))
            /\ input' = << >>
            /\ uploadedImage' = None
            /\ isLoading' = TRUE
            /\ lastEvent' = Event("handleSubmit")
            /\ UNCHANGED << model, showGenerationPanel, genPrompt, genParams,
                            conversationId, store, now, created, uncaught >>

\* --------------------------------------------------- handleGenerateImage
\* if (!genPrompt.trim() || isLoading) return;
GenerateRejected == TrimIsEmpty(genPrompt) \/ isLoading

\* handleGenerateImage up to the await in its first saveMessage.
HandleGenerateImage ==
    /\ showGenerationPanel
    /\ IF GenerateRejected
       THEN /\ lastEvent' = Rejected("handleGenerateImage")
            /\ UNCHANGED << view, outside, used >>
       ELSE /\ UseRequest
            /\ LET userMessage ==
                       [id |-> ToString(now), author |-> "USER",
                        parts |-> << TextPart(GeneratePrefix \o genPrompt
                                              \o GenerateSuffix) >>]
                   params == [model |-> genModel, aspectRatio |-> genAspectRatio,
                              numberOfImages |-> genNumImages]
                   call == SaveMessageCall(currentConversationIdRef, userMessage,
                                           model, now)
               IN  /\ messages' = Append(WithoutInitial(messages), userMessage)
                   /\ currentConversationIdRef' = call.ref
                   /\ tasks' = Append(tasks,
                         HandlerTask("handleGenerateImage", userMessage, << >>,
                                     model, genPrompt, params, call))
            /\ isLoading' = TRUE
            /\ showGenerationPanel' = FALSE
            /\ lastEvent' = Event("handleGenerateImage")
            /\ UNCHANGED << input, model, uploadedImage, genPrompt, genParams,
                            conversationId, store, now, created, uncaught >>

\* ------------------------------------------------ handleRecallGeneration
\* The generation results on screen that offer the recall button.
Recallable ==
    { p \in UNION { { messages[i].parts[j] : j \in 1 .. Len(messages[i].parts) }
                    : i \in 1 .. Len(messages) } :
        p.type = "imageGenerationResult" /\ p.prompt # << >> }

HandleRecallKeepsUpload(prompt, params) ==
    /\ genPrompt' = prompt
    /\ genModel' = params.model
    /\ genAspectRatio' = params.aspectRatio
    /\ genNumImages' = params.numberOfImages
    /\ showGenerationPanel' = TRUE
    /\ UseEvent
    /\ lastEvent' = [Event("handleRecallGeneration") EXCEPT
                        !.args = Some([prompt |-> prompt, params |-> params])]
    /\ UNCHANGED << messages, input, isLoading, model, uploadedImage, outside >>

HandleRecallGeneration(prompt, params) ==
    /\ genPrompt' = prompt
    /\ genModel' = params.model
    /\ genAspectRatio' = params.aspectRatio
    /\ genNumImages' = params.numberOfImages
    /\ showGenerationPanel' = TRUE
    /\ uploadedImage' = None
    /\ UseEvent
    /\ lastEvent' = [Event("handleRecallGeneration") EXCEPT
                        !.args = Some([prompt |-> prompt, params |-> params])]
    /\ UNCHANGED << messages, input, isLoading, model, outside >>

\* ------------------------------------------------ the steps of a request
ModelMessage(id, parts) == [id |-> id, author |-> "MODEL", parts |-> parts]

\* prev.map(msg => msg.id === id ? { ...msg, parts: [text part] } : msg)
ReplaceText(msgs, id, text) ==
    [i \in 1 .. Len(msgs) |->
        IF msgs[i].id = id THEN [msgs[i] EXCEPT !.parts = << TextPart(text) >>]
        ELSE msgs[i]]

AccumulateReversed(fullResponse, chunk) == chunk \o fullResponse

\* fullResponse += chunk
Accumulate(fullResponse, chunk) == fullResponse \o chunk

FinishGenerateKeepsLoading(i) ==
    /\ genPrompt' = << >>
    /\ isLoading' = isLoading
    /\ tasks' = Remove(tasks, i)
    /\ UNCHANGED messages

\* The end of handleGenerateImage, after its second saveMessage.
FinishGenerate(i) ==
    /\ genPrompt' = << >>
    /\ isLoading' = FALSE
    /\ tasks' = Remove(tasks, i)
    /\ UNCHANGED messages

\* What a handler does when its saveMessage returns, up to its next await.
AfterSaveMessage(i, t) ==
    /\ lastEvent' = SaveEvent(t)
    /\ CASE t.kind = "handleSubmit" /\ t.phase = 1 ->
              /\ messages' = Append(messages,
                                ModelMessage(ToString(now + 1), << TextPart(<< >>) >>))
              /\ tasks' = [tasks EXCEPT ![i] =
                              [t EXCEPT !.pc = "stream", !.remote = "pending",
                                        !.modelMessageId = ToString(now + 1)]]
              /\ UNCHANGED << isLoading, genPrompt >>
         [] t.kind = "handleSubmit" /\ t.phase = 2 ->
              /\ tasks' = Remove(tasks, i)
              /\ UNCHANGED << messages, isLoading, genPrompt >>
         [] t.kind = "handleGenerateImage" /\ t.phase = 1 ->
              /\ tasks' = [tasks EXCEPT ![i] =
                              [t EXCEPT !.pc = "generateImage", !.remote = "pending"]]
              /\ UNCHANGED << messages, isLoading, genPrompt >>
         [] t.kind = "handleGenerateImage" /\ t.phase = 2 -> FinishGenerate(i)

\* saveMessage resumes with what getConversation answered.
GetConversationResolved(i) ==
    /\ i \in 1 .. Len(tasks)
    /\ IsHandler(tasks[i])
    /\ tasks[i].pc = "getConversation"
    /\ LET t == tasks[i]
           existingConvo == GetConversation(store, t.convoId)
       IN  IF IsChat(existingConvo)
           THEN /\ tasks' = [tasks EXCEPT ![i] =
                      [t EXCEPT !.pc = "addOrUpdateConversation",
                                !.conv = Some(Push(existingConvo[1], t.message))]]
                /\ lastEvent' = Event("getConversation")
                /\ UNCHANGED << messages, isLoading, genPrompt >>
           ELSE AfterSaveMessage(i, t)
    /\ UNCHANGED << input, model, uploadedImage, showGenerationPanel, genParams,
                    currentConversationIdRef, conversationId, store, now, created,
                    uncaught, used >>

\* saveMessage resumes after addOrUpdateConversation and returns.
AddOrUpdateResolved(i) ==
    /\ i \in 1 .. Len(tasks)
    /\ IsHandler(tasks[i])
    /\ tasks[i].pc = "addOrUpdateConversation"
    /\ store' = AddOrUpdateConversation(store, tasks[i].conv[1])
    /\ created' = IF tasks[i].isNew THEN Append(created, tasks[i].convoId) ELSE created
    /\ AfterSaveMessage(i, tasks[i])
    /\ UNCHANGED << input, model, uploadedImage, showGenerationPanel, genParams,
                    currentConversationIdRef, conversationId, now, uncaught, used >>

\* The clock after an answer of the remote model: a round trip takes time.
AfterAnswer(t) == IF t.remote = "pending" THEN now + 1 ELSE now

\* One yield of getChatResponseStream and the loop body that consumes it.
Yield(i, chunk, remote) ==
    LET t == tasks[i]
        fullResponse == Accumulate(t.fullResponse, chunk)
    IN  /\ messages' = ReplaceText(messages, t.modelMessageId, fullResponse)
        /\ tasks' = [tasks EXCEPT ![i] =
               [t EXCEPT !.fullResponse = fullResponse, !.remote = remote,
                         !.chunks = Append(@, chunk)]]
        /\ now' = AfterAnswer(t)
        /\ UNCHANGED << input, isLoading, model, uploadedImage, showGenerationPanel,
                        genPrompt, genParams, currentConversationIdRef,
                        conversationId, store, created, uncaught, used >>

\* The remote stream delivers its next fragment.
StreamFragment(i) ==
    /\ i \in 1 .. Len(tasks)
    /\ tasks[i].pc = "stream"
    /\ tasks[i].remote \in {"pending", "open"}
    /\ Len(tasks[i].chunks) < MaxFragments
    /\ Yield(i, Fragment(Len(tasks[i].chunks) + 1), "open")
    /\ lastEvent' = Event("chunk")

StreamFailsSilently(i) ==
    /\ i \in 1 .. Len(tasks)
    /\ tasks[i].pc = "stream"
    /\ tasks[i].remote \in {"pending", "open"}
    /\ tasks' = [tasks EXCEPT ![i] = [@ EXCEPT !.remote = "failed"]]
    /\ now' = AfterAnswer(tasks[i])
    /\ lastEvent' = Event("chunk")
    /\ UNCHANGED << view, currentConversationIdRef, conversationId, store, created,
                    uncaught, used >>

\* The remote call throws, before or after it has opened the stream.
StreamFails(i) ==
    /\ i \in 1 .. Len(tasks)
    /\ tasks[i].pc = "stream"
    /\ tasks[i].remote \in {"pending", "open"}
    /\ Yield(i, StreamErrorText, "failed")
    /\ lastEvent' = Event("chunk")

\* The generator returns: the loop ends, and handleSubmit runs up to the
\* await in its second saveMessage.
StreamEnd(i) ==
    /\ i \in 1 .. Len(tasks)
    /\ tasks[i].pc = "stream"
    /\ LET t == tasks[i]
           finalModelMessage ==
               ModelMessage(t.modelMessageId, << TextPart(t.fullResponse) >>)
           call == SaveMessageCall(currentConversationIdRef, finalModelMessage,
                                   t.model, AfterAnswer(t))
       IN  /\ now' = AfterAnswer(t)
           /\ currentConversationIdRef' = call.ref
           /\ tasks' = [tasks EXCEPT ![i] =
                  [Suspended(t, call) EXCEPT !.phase = 2, !.remote = "closed"]]
    /\ isLoading' = FALSE
    /\ lastEvent' = Event("streamEnd")
    /\ UNCHANGED << messages, input, model, uploadedImage, showGenerationPanel,
                    genPrompt, genParams, conversationId, store, created, uncaught, used >>

\* The message handleGenerateImage makes of generateImage's result.
GenerationMessage(id, result, prompt, params) ==
    IF result # None
    THEN ModelMessage(id,
             << [type |-> "imageGenerationResult",
                 images |-> [k \in 1 .. Len(result[1]) |-> [url |-> result[1][k]]],
                 prompt |-> prompt, parameters |-> params] >>)
    ELSE ModelMessage(id, << TextPart(GenerateFailedText) >>)

\* generateImage answers, and handleGenerateImage runs up to the await in
\* its second saveMessage.
GenerateImageResolved(i, response) ==
    /\ i \in 1 .. Len(tasks)
    /\ tasks[i].pc = "generateImage"
    /\ LET t == tasks[i]
           result == GenerateImage(t.genPrompt, t.params, response)
           message == GenerationMessage(ToString(now + 1 + 1), result,
                                        t.genPrompt, t.params)
           call == SaveMessageCall(currentConversationIdRef, message, t.model,
                                   now + 1)
       IN  /\ messages' = Append(messages, message)
           /\ currentConversationIdRef' = call.ref
           /\ tasks' = [tasks EXCEPT ![i] =
                  [Suspended(t, call) EXCEPT !.phase = 2, !.remote = "closed"]]
           /\ lastEvent' = [Event("generateImage") EXCEPT !.message = Some(message),
                                                          !.result = result]
    /\ now' = now + 1
    /\ UNCHANGED << input, isLoading, model, uploadedImage, showGenerationPanel,
                    genPrompt, genParams, conversationId, store, created, uncaught, used >>

\* ------------------------------------------------------- rejected promises
\* A call of the store rejects: the async function awaiting it, which has no
\* try, rejects with it and runs no further.
StoreCallRejects(i) ==
    /\ i \in 1 .. Len(tasks)
    /\ tasks[i].pc \in {"getConversation", "addOrUpdateConversation"}
    /\ tasks' = Remove(tasks, i)
    /\ uncaught' = uncaught + 1
    /\ lastEvent' = [Event("rejected") EXCEPT !.kind = tasks[i].kind]
    /\ UNCHANGED << view, currentConversationIdRef, conversationId, store, now,
                    created, used >>

\* The FileReader reports an error: fileToBase64 rejects, and so does
\* handleFileChange.
FileReadRejects(i) ==
    /\ i \in 1 .. Len(tasks)
    /\ tasks[i].pc = "fileToBase64"
    /\ tasks' = Remove(tasks, i)
    /\ uncaught' = uncaught + 1
    /\ lastEvent' = [Event("rejected") EXCEPT !.kind = tasks[i].kind]
    /\ UNCHANGED << view, currentConversationIdRef, conversationId, store, now,
                    created, used >>

\* ------------------------------------------------------ the specifications
TaskIds == 1 .. (MaxRequests + MaxEvents + 1)

UserStep ==
    \/ \E text \in Inputs : SetInput(text)
    \/ \E m \in ChatModels : SetModel(m)
    \/ \E file \in Files : HandleFileChange(file)
    \/ RemoveAttachment
    \/ OpenPanel
    \/ CancelPanel
    \/ \E text \in Prompts : SetGenPrompt(text)
    \/ \E m \in ImagenModels : SetGenModel(m)
    \/ \E ar \in AspectRatios : SetGenAspectRatio(ar)
    \/ \E n \in NumImages : SetGenNumImages(n)
    \/ HandleSubmit
    \/ HandleGenerateImage
    \/ \E p \in Recallable : HandleRecallGeneration(p.prompt, p.parameters)

ParentStep ==
    \E id \in KnownIds \cup { created[k] : k \in 1 .. Len(created) } :
        ConversationIdChange(id)

TaskStep(i) ==
    \/ LoadConversation(i)
    \/ FileRead(i)
    \/ GetConversationResolved(i)
    \/ AddOrUpdateResolved(i)
    \/ StreamFragment(i)
    \/ StreamFails(i)
    \/ StreamEnd(i)
    \/ \E response \in ImageResponses : GenerateImageResolved(i, response)

Next ==
    \/ UserStep
    \/ ParentStep
    \/ \E i \in TaskIds : TaskStep(i)
    \/ Tick

Spec == Init /\ [][Next]_vars

\* Every call a task awaits answers in the end.
FairSpec == Spec /\ WF_vars(\E i \in TaskIds : TaskStep(i))

\* The calls of the store and the file read can also fail.
NextFail ==
    \/ Next
    \/ \E i \in TaskIds : StoreCallRejects(i)
    \/ \E i \in TaskIds : FileReadRejects(i)

SpecFail == Init /\ [][NextFail]_vars

\* ================================================================ claims
HandlerTasks == { i \in 1 .. Len(tasks) : IsHandler(tasks[i]) }

IsPrefix(s, t) == Len(s) <= Len(t) /\ SubSeq(t, 1, Len(s)) = s

StoredMessages(db, id) == IF id \in DOMAIN db THEN db[id].messages ELSE << >>

\* C1: every write of the store keeps each conversation's id and makes its
\* message sequence the sequence stored before plus exactly one message at
\* the end, in every interleaving of the handlers.
C1_AppendOnly ==
    [][\A id \in DOMAIN store' :
          /\ store'[id].id = id
          /\ StoredMessages(store', id) # StoredMessages(store, id) =>
                /\ IsPrefix(StoredMessages(store, id), StoredMessages(store', id))
                /\ Len(StoredMessages(store', id)) = Len(StoredMessages(store, id)) + 1
    ]_vars

C3_FirstSubmissionDone ==
    /\ lastEvent.op = "saveMessage"
    /\ lastEvent.kind = "handleSubmit"
    /\ lastEvent.phase = 2
    /\ lastEvent.startedNew
    /\ ~lastEvent.switched
    /\ used.requests = 1

\* C3: such a submission has called onConversationCreated exactly once, with
\* an id that was not stored before, and the store holds under that id
\* exactly the USER message and then the MODEL reply; no other conversation
\* was created.
C3_NewConversation ==
    C3_FirstSubmissionDone =>
        /\ Len(created) = 1
        /\ created[1] \notin DOMAIN InitialStore
        /\ DOMAIN store = DOMAIN InitialStore \cup { created[1] }
        /\ Len(store[created[1]].messages) = 2
        /\ store[created[1]].messages[1].author = "USER"
        /\ store[created[1]].messages[2] = lastEvent.message[1]
        /\ store[created[1]].messages[2].author = "MODEL"
        /\ store[created[1]].id = created[1]
        /\ \A id \in DOMAIN InitialStore : store[id] = InitialStore[id]

\* The submission is done and the parent has passed the new id back.
C3_Witness ==
    /\ C3_FirstSubmissionDone
    /\ Len(created) = 1
    /\ conversationId = created[1]
    /\ Len(store[created[1]].messages) = 2
    /\ store[created[1]].messages[1].parts = << TextPart(<<"h", "i">>) >>

\* C4: while the loading flag is set, a call of handleSubmit or of
\* handleGenerateImage changes nothing: not the message list, the input, the
\* attachment or the panel, and it starts no call of the store or of the
\* service.  At every moment at most one handler waits for the chat stream or
\* for generateImage.
C4_LoadingGuard ==
    /\ [][isLoading /\ lastEvent'.op \in {"handleSubmit", "handleGenerateImage"} =>
            /\ ~lastEvent'.accepted
            /\ UNCHANGED << view, outside >>]_vars
    /\ [](Cardinality({ i \in HandlerTasks :
                          tasks[i].pc \in {"stream", "generateImage"} }) <= 1)

\* handleSubmit has just been called with an attachment while a request is
\* waiting for its service call, and has returned at its guard.
C4_Witness ==
    /\ isLoading
    /\ lastEvent = Rejected("handleSubmit")
    /\ uploadedImage # None
    /\ \E i \in HandlerTasks : tasks[i].pc \in {"stream", "generateImage"}

\* C5: handleSubmit with an input that is empty after trimming and with no
\* attachment changes nothing, whatever the loading flag is: message list,
\* store, loading flag, input and conversation id stay, and no call starts.
C5_BlankSubmit ==
    [][/\ lastEvent'.op = "handleSubmit"
       /\ TrimIsEmpty(input)
       /\ uploadedImage = None
       => /\ ~lastEvent'.accepted
          /\ UNCHANGED << view, outside >>]_vars

\* handleSubmit has returned at its guard for an input of one space, with no
\* attachment and no request in flight.
C5_Witness ==
    /\ lastEvent = Rejected("handleSubmit")
    /\ input = << " " >>
    /\ uploadedImage = None
    /\ ~isLoading

\* C6: when the first saveMessage of handleSubmit returns, the store holds a
\* conversation under the id saveMessage saved to, and its messages contain
\* the USER message of the submission.
C6_UserMessagePersisted ==
    lastEvent.op = "saveMessage" /\ lastEvent.kind = "handleSubmit"
                                 /\ lastEvent.phase = 1 =>
        /\ lastEvent.id \in DOMAIN store
        /\ \E k \in 1 .. Len(store[lastEvent.id].messages) :
              store[lastEvent.id].messages[k] = lastEvent.message[1]

\* The first saveMessage of a submission to the stored chat conversation has
\* returned.
C6_Witness ==
    /\ lastEvent.op = "saveMessage"
    /\ lastEvent.kind = "handleSubmit"
    /\ lastEvent.phase = 1
    /\ lastEvent.id = "c1"

\* The one greeting message of MODEL.
C7_IsGreeting(msgs) ==
    /\ Len(msgs) = 1
    /\ msgs[1].author = "MODEL"
    /\ msgs[1].parts = << TextPart(GreetingText) >>

\* C7 as the specification states it: a load for no id, and a load for an id
\* the store has no conversation for, set the one greeting and the default
\* model; a load that finds the conversation sets its migrated messages and
\* its modelUsed.
C7_LoadGreetsWhenAbsent ==
    lastEvent.op = "loadConversation" =>
        IF lastEvent.id = Null \/ lastEvent.convo = None
        THEN C7_IsGreeting(messages) /\ model = DefaultModel
        ELSE /\ messages = MigratedMessages(lastEvent.convo[1].messages)
             /\ model = lastEvent.convo[1].modelUsed

\* C7: a load for no id sets the one greeting and the default model; a load
\* for an id under which the store has no chat conversation (none, or one of
\* another type) sets the empty message list and the default model; a load
\* that finds a chat conversation sets its migrated messages and its modelUsed.
C7_Load ==
    lastEvent.op = "loadConversation" =>
        IF lastEvent.id = Null
        THEN C7_IsGreeting(messages) /\ model = DefaultModel
        ELSE IF lastEvent.convo # None /\ lastEvent.convo[1].type = "chat"
        THEN /\ messages = MigratedMessages(lastEvent.convo[1].messages)
             /\ model = lastEvent.convo[1].modelUsed
        ELSE messages = << >> /\ model = DefaultModel

\* A load for an id the store has nothing under has just ended, after the
\* chat model had been changed.
C7_Witness ==
    /\ lastEvent.op = "loadConversation"
    /\ lastEvent.id = "gone"
    /\ lastEvent.convo = None
    /\ messages = << >>
    /\ model = DefaultModel

\* C8: whenever the loading flag is set it is cleared later, the calls of the
\* service and of the store all answering, also when the parent passes
\* another conversationId meanwhile.
C8_LoadingCleared == isLoading ~> ~isLoading

\* A request is in flight, the loading flag set, and the parent has passed
\* another conversationId since the request began.
C8_Witness ==
    /\ isLoading
    /\ \E i \in HandlerTasks :
          /\ tasks[i].switched
          /\ tasks[i].pc \in {"stream", "generateImage"}

\* C9: the step that receives generateImage's result appends exactly one MODEL
\* message to the message list and hands it to saveMessage: its only part is
\* the apology text when the result is null, and otherwise one
\* imageGenerationResult with the prompt, the parameters used and the urls in
\* order.  When handleGenerateImage ends, the store holds that message at the
\* end of the conversation saved to, after a USER message.
C9_GenerationOutcome ==
    /\ [][lastEvent'.op = "generateImage" =>
            LET msg == lastEvent'.message[1]
                result == lastEvent'.result
            IN  /\ messages' = Append(messages, msg)
                /\ msg.author = "MODEL"
                /\ \E i \in HandlerTasks :
                      /\ tasks[i].pc = "generateImage"
                      /\ tasks'[i].message = msg
                      /\ tasks[i].userMessage.parts =
                            << TextPart(GeneratePrefix \o tasks[i].genPrompt
                                        \o GenerateSuffix) >>
                      /\ msg.parts =
                            IF result = None
                            THEN << TextPart(GenerateFailedText) >>
                            ELSE << [type |-> "imageGenerationResult",
                                     images |-> [k \in 1 .. Len(result[1]) |->
                                                    [url |-> result[1][k]]],
                                     prompt |-> tasks[i].genPrompt,
                                     parameters |-> tasks[i].params] >>
      ]_vars
    /\ [](lastEvent.op = "saveMessage" /\ lastEvent.kind = "handleGenerateImage"
                                       /\ lastEvent.phase = 2 =>
            /\ lastEvent.id \in DOMAIN store
            /\ Len(store[lastEvent.id].messages) >= 2
            /\ LET stored == store[lastEvent.id].messages
               IN  /\ stored[Len(stored)] = lastEvent.message[1]
                   /\ stored[Len(stored) - 1].author = "USER")

\* handleGenerateImage has ended after a null result, in the stored chat
\* conversation.
C9_Witness ==
    /\ lastEvent.op = "saveMessage"
    /\ lastEvent.kind = "handleGenerateImage"
    /\ lastEvent.phase = 2
    /\ lastEvent.id = "c1"
    /\ lastEvent.message[1].parts = << TextPart(GenerateFailedText) >>
    /\ ~isLoading

\* C10: no rejection of a call of the store or of the file read leaves a
\* handler as an uncaught rejection, and the loading flag is set only while a
\* handler is running.
C10_NoUncaughtRejection ==
    /\ uncaught = 0
    /\ isLoading => HandlerTasks # {}

\* A call of the store has rejected inside handleSubmit.
C10_Witness ==
    /\ lastEvent.op = "rejected"
    /\ lastEvent.kind = "handleSubmit"
    /\ isLoading

\* The first n fragments of the remote stream, in order.
C11_Fragments(n) == [j \in 1 .. n |-> Fragment(j)]

\* C11: what getChatResponseStream has yielded to handleSubmit is, while the
\* remote call has not failed, exactly the fragments received so far in
\* order; once it has failed, those fragments followed by exactly one apology
\* fragment, after which nothing more is yielded; and when the generator has
\* returned, one of the two.
C11_StreamSoftFail ==
    /\ [](\A i \in HandlerTasks :
            LET t == tasks[i]
                n == Len(t.chunks)
            IN  t.kind = "handleSubmit" =>
                  /\ t.remote \in {"idle", "pending", "open"} =>
                        t.chunks = C11_Fragments(n)
                  /\ t.remote = "failed" =>
                        /\ n >= 1
                        /\ t.chunks = Append(C11_Fragments(n - 1), StreamErrorText)
                  /\ t.remote = "closed" =>
                        \/ t.chunks = C11_Fragments(n)
                        \/ /\ n >= 1
                           /\ t.chunks = Append(C11_Fragments(n - 1), StreamErrorText))
    /\ [][lastEvent'.op = "chunk" =>
            \A i \in HandlerTasks :
                tasks[i].remote = "failed" => tasks'[i] = tasks[i]]_vars

\* The remote call has failed after one fragment: the consumer has received
\* that fragment and then the apology, both shown in the placeholder.
C11_Witness ==
    \E i \in HandlerTasks :
        /\ tasks[i].remote = "failed"
        /\ tasks[i].chunks = << Fragment(1), StreamErrorText >>
        /\ \E k \in 1 .. Len(messages) :
              messages[k].parts = << TextPart(Fragment(1) \o StreamErrorText) >>

\* =============================================== functions called directly
\* The functions of geminiService and of the component, applied to arguments
\* of their own: lastEvent records the call made last, its arguments, what
\* the remote model answered, and the result.

\* ------------------------------------------------ geminiService arguments
\* GenerationEvent['parameters'], with and without outputMimeType.
ServiceParams ==
    [model : ImagenModels, aspectRatio : AspectRatios, numberOfImages : NumImages]
    \cup [model : ImagenModels, aspectRatio : {"1:1"}, numberOfImages : {1},
          outputMimeType : {"image/jpeg"}]

Base64Images == {"iVBOR"}
MimeTypes == {"image/png", "image/jpeg"}

\* What generateContent answers analyzeImage with: a failure, or a text.
AnalyzeResponses == { None, Some(<<"a", " ", "c", "a", "t">>) }

InlinePart(bytes) == [inlineData |-> [data |-> bytes, mimeType |-> "image/jpeg"]]
ResponseText == [text |-> <<"o", "k">>]
Candidate(parts) == [content |-> [parts |-> parts]]

\* What generateContent answers editImage with: a failure, no candidate, and
\* candidates with no part, only a text, one image, a text and two images.
EditResponses ==
    { None,
      Some([candidates |-> << >>]),
      Some([candidates |-> << Candidate(<< >>) >>]),
      Some([candidates |-> << Candidate(<< ResponseText >>) >>]),
      Some([candidates |-> << Candidate(<< InlinePart("XXX") >>) >>]),
      Some([candidates |-> << Candidate(<< ResponseText, InlinePart("XXX"),
                                           InlinePart("YYY") >>) >>]) }

AnalyzeFailedText ==
    <<"S", "o", "r", "r", "y", ",", " ", "I", " ", "c", "o", "u", "l", "d", "n", "'",
      "t", " ", "a", "n", "a", "l", "y", "z", "e", " ", "t", "h", "e", " ", "i", "m",
      "a", "g", "e", ".">>

\* geminiService.analyzeImage: `response` is None when generateContent throws
\* and else response.text.
AnalyzeImage(base64Image, mimeType, prompt, response) ==
    IF response = None THEN AnalyzeFailedText ELSE response[1]

\* `data:image/png;base64,${base64ImageBytes}`
EditedUrl(base64ImageBytes) == <<"data:image/png;base64,", base64ImageBytes>>

\* The for loop of editImage over the parts from index k on.
RECURSIVE FirstInline(_, _)
FirstInline(parts, k) ==
    IF k > Len(parts) THEN None
    ELSE IF "inlineData" \in DOMAIN parts[k]
         THEN Some(EditedUrl(parts[k].inlineData.data))
         ELSE FirstInline(parts, k + 1)

EditImageLastPart(base64Image, mimeType, prompt, response) ==
    IF response = None \/ Len(response[1].candidates) = 0 THEN None
    ELSE LET parts == response[1].candidates[1].content.parts
         IN  IF Len(parts) > 0 /\ "inlineData" \in DOMAIN parts[Len(parts)]
             THEN Some(EditedUrl(parts[Len(parts)].inlineData.data))
             ELSE None

\* geminiService.editImage: `response` is None when generateContent throws;
\* reading candidates[0].content of an answer with no candidate throws inside
\* the try as well.
EditImage(base64Image, mimeType, prompt, response) ==
    IF response = None \/ Len(response[1].candidates) = 0 THEN None
    ELSE FirstInline(response[1].candidates[1].content.parts, 1)

CallGenerateImage ==
    /\ \E prompt \in Prompts, params \in ServiceParams, response \in ImageResponses :
          lastEvent' = [op |-> "generateImage", prompt |-> prompt, params |-> params,
                        response |-> response,
                        result |-> GenerateImage(prompt, params, response)]
    /\ UNCHANGED << view, outside, used >>

CallAnalyzeImage ==
    /\ \E base64Image \in Base64Images, mimeType \in MimeTypes, prompt \in Prompts,
          response \in AnalyzeResponses :
          lastEvent' = [op |-> "analyzeImage", response |-> response,
                        result |-> AnalyzeImage(base64Image, mimeType, prompt, response)]
    /\ UNCHANGED << view, outside, used >>

CallEditImage ==
    /\ \E base64Image \in Base64Images, mimeType \in MimeTypes, prompt \in Prompts,
          response \in EditResponses :
          lastEvent' = [op |-> "editImage", response |-> response,
                        result |-> EditImage(base64Image, mimeType, prompt, response)]
    /\ UNCHANGED << view, outside, used >>

\* ------------------------------------------------- saveMessage arguments
\* A text of n characters.
TextOfLength(n) == [k \in 1 .. n |-> Letters[(k % Len(Letters)) + 1]]

\* Text lengths around the title's limit, and the empty text of a reply
\* whose stream yielded nothing.
TextLengths == {0, 1, TitleLimit - 1, TitleLimit, TitleLimit + 1, TitleLimit + 5}

ImagePart == [type |-> "image", url |-> <<"blob:", "iVBOR">>, base64 |-> "iVBOR",
              mimeType |-> "image/png"]

\* First messages of a conversation: a text, an image and a text, an image
\* alone, two texts.
FirstMessages ==
    { [id |-> "1", author |-> a, parts |-> ps] :
        a \in {"USER", "MODEL"},
        ps \in { << TextPart(TextOfLength(n)) >> : n \in TextLengths }
              \cup { << ImagePart, TextPart(TextOfLength(n)) >> : n \in TextLengths }
              \cup { << TextPart(TextOfLength(n)), TextPart(TextOfLength(1)) >> :
                       n \in TextLengths }
              \cup { << ImagePart >> } }

\* saveMessage with no current conversation: the conversation it creates.
CallNewConversation ==
    /\ \E message \in FirstMessages, modelUsed \in ChatModels :
          lastEvent' = [op |-> "newConversation", message |-> message,
                        result |-> NewConversation("1", message, modelUsed, 1)]
    /\ UNCHANGED << view, outside, used >>

\* ------------------------------------------------------- buildContents
\* part.type === 'text' || part.type === 'image'
IsSent(part) == part.type = "text" \/ part.type = "image"

\* msg.parts.reduce: a text part becomes { text }, an image part becomes
\* { inlineData: { mimeType, data } }, any other part adds nothing.
RECURSIVE ReduceParts(_)
ReduceParts(parts) ==
    IF parts = << >> THEN << >>
    ELSE LET part == Head(parts)
             acc == ReduceParts(Tail(parts))
         IN  IF part.type = "text" THEN << [text |-> part.text] >> \o acc
             ELSE IF part.type = "image"
                  THEN << [inlineData |-> [mimeType |-> part.mimeType,
                                           data |-> part.base64]] >> \o acc
                  ELSE acc

Content(msg) ==
    [role |-> IF msg.author = "USER" THEN "user" ELSE "model",
     parts |-> ReduceParts(msg.parts)]

BuildContentsUnfiltered(msgs) ==
    [k \in 1 .. Len(msgs) |-> Content(msgs[k])]

BuildContents(msgs) ==
    LET sent == SelectSeq(msgs, LAMBDA msg :
                    \E k \in 1 .. Len(msg.parts) : IsSent(msg.parts[k]))
    IN  [k \in 1 .. Len(sent) |-> Content(sent[k])]

\* The longest history passed to buildContents.
MaxHistory == 3

GenerationPart == StoredChat.messages[3].parts[1]

\* What a message of a history is made of: the USER messages handleSubmit
\* builds (text, image, image then text), the replies (a text, the empty
\* text of a reply not yet streamed, a generation result), and a message
\* mixing a generation result with a text and an image, which the type
\* ChatMessage allows.
HistoryEntries ==
    { [author |-> "USER", parts |-> ps] :
        ps \in { << TextPart(<<"h", "i">>) >>, << ImagePart >>,
                 << ImagePart, TextPart(<<"h", "i">>) >> } }
    \cup { [author |-> "MODEL", parts |-> ps] :
        ps \in { << TextPart(<<"o", "k">>) >>, << TextPart(<< >>) >>,
                 << GenerationPart >>,
                 << GenerationPart, TextPart(<<"o", "k">>), ImagePart >> } }

Histories ==
    UNION { [1 .. n -> HistoryEntries] : n \in 0 .. MaxHistory }

\* The messages of a history carry their position as id.
WithIds(h) ==
    [k \in 1 .. Len(h) |-> [id |-> ToString(k), author |-> h[k].author,
                            parts |-> h[k].parts]]

CallBuildContents ==
    /\ \E h \in Histories :
          lastEvent' = [op |-> "buildContents", messages |-> WithIds(h),
                        result |-> BuildContents(WithIds(h))]
    /\ UNCHANGED << view, outside, used >>

CallInit == Init /\ conversationId = Null

CallNext ==
    \/ CallGenerateImage
    \/ CallAnalyzeImage
    \/ CallEditImage
    \/ CallNewConversation
    \/ CallBuildContents

CallSpec == CallInit /\ [][CallNext]_vars

\* C12: on a failure of the remote call generateImage and editImage return
\* null and analyzeImage returns its fixed apology.  generateImage returns
\* null for an answer with no image and else one data URL per image, in the
\* answer's order.  editImage returns the data URL of the first part that has
\* inlineData, and null when no part has.
C12_ServiceSoftFail ==
    /\ lastEvent.op = "generateImage" =>
          LET response == lastEvent.response
              result == lastEvent.result
              mime == IF "outputMimeType" \in DOMAIN lastEvent.params
                      THEN lastEvent.params.outputMimeType ELSE "image/png"
          IN  IF response = None \/ response = Some(<< >>)
              THEN result = None
              ELSE /\ result # None
                   /\ Len(result[1]) = Len(response[1])
                   /\ \A k \in 1 .. Len(response[1]) :
                         result[1][k] = <<"data:", mime, ";base64,", response[1][k]>>
    /\ lastEvent.op = "analyzeImage" =>
          IF lastEvent.response = None
          THEN lastEvent.result = AnalyzeFailedText
          ELSE lastEvent.result = lastEvent.response[1]
    /\ lastEvent.op = "editImage" =>
          LET response == lastEvent.response
              parts == IF response = None \/ response[1].candidates = << >>
                       THEN << >>
                       ELSE response[1].candidates[1].content.parts
              inline == { k \in 1 .. Len(parts) : "inlineData" \in DOMAIN parts[k] }
          IN  IF inline = {}
              THEN lastEvent.result = None
              ELSE \E k \in inline :
                      /\ \A j \in inline : k <= j
                      /\ lastEvent.result =
                            Some(<<"data:image/png;base64,", parts[k].inlineData.data>>)

\* editImage has answered with the first of two images that followed a text.
C12_Witness ==
    /\ lastEvent.op = "editImage"
    /\ lastEvent.response # None
    /\ lastEvent.response[1].candidates # << >>
    /\ Len(lastEvent.response[1].candidates[1].content.parts) = 3
    /\ lastEvent.result = Some(<<"data:image/png;base64,", "XXX">>)

\* C13: the greeting, the message with id 'initial', is in no history that a
\* handleSubmit passes to getChatResponseStream, in no conversation of the
\* store, and in no conversation a saveMessage is about to write.
C13_GreetingStaysLocal ==
    /\ \A i \in HandlerTasks :
          /\ \A k \in 1 .. Len(tasks[i].updatedMessages) :
                tasks[i].updatedMessages[k].id # InitialId
          /\ tasks[i].conv # None =>
                \A k \in 1 .. Len(tasks[i].conv[1].messages) :
                    tasks[i].conv[1].messages[k].id # InitialId
    /\ \A id \in DOMAIN store :
          \A k \in 1 .. Len(store[id].messages) : store[id].messages[k].id # InitialId

\* A submission made while the list showed the greeting is waiting for the
\* stream: the history it passed holds its USER message only, which is also
\* all that is stored under the new id.
C13_Witness ==
    \E i \in HandlerTasks :
        /\ tasks[i].kind = "handleSubmit"
        /\ tasks[i].pc = "stream"
        /\ tasks[i].startedNew
        /\ tasks[i].updatedMessages = << tasks[i].userMessage >>
        /\ tasks[i].startConvoId \in DOMAIN store
        /\ store[tasks[i].startConvoId].messages = << tasks[i].userMessage >>

\* The first text part of the message of the call made last, if any.
C14_FirstText ==
    LET texts == SelectSeq(lastEvent.message.parts, LAMBDA p : p.type = "text")
    IN  IF texts = << >> THEN None ELSE Some(texts[1].text)

\* C14 as the specification states it: the title of a created conversation is
\* the first text part t of its first message when t has at most 40
\* characters, the first 40 characters of t and "..." when t is longer, and
\* "New Chat" when the message has no text part.
C14_TitleOfFirstText ==
    lastEvent.op = "newConversation" =>
        LET title == lastEvent.result.title
            t == C14_FirstText
        IN  IF t = None THEN title = NewChat
            ELSE IF Len(t[1]) <= 40 THEN title = t[1]
            ELSE title = SubSeq(t[1], 1, 40) \o <<".", ".", ".">>

\* C14: the title is "New Chat" when the first message has no text part or
\* its first text part is the empty text; otherwise it is the first text part
\* t when t has at most 40 characters, and the first 40 characters of t and
\* "..." when t is longer.
C14_Title ==
    lastEvent.op = "newConversation" =>
        LET title == lastEvent.result.title
            t == C14_FirstText
        IN  IF t = None \/ t = Some(<< >>) THEN title = NewChat
            ELSE IF Len(t[1]) <= 40 THEN title = t[1]
            ELSE title = SubSeq(t[1], 1, 40) \o <<".", ".", ".">>

\* A conversation has been created for an image and a text of 41 characters:
\* its title has 43.
C14_Witness ==
    /\ lastEvent.op = "newConversation"
    /\ Len(lastEvent.message.parts) = 2
    /\ lastEvent.message.parts[1].type = "image"
    /\ Len(lastEvent.message.parts[2].text) = 41
    /\ Len(lastEvent.result.title) = 43
    /\ lastEvent.result.messages = << lastEvent.message >>

\* C15: a load that finds a chat conversation shows as many messages as are
\* stored, in the stored order and with the stored id and author.  A stored
\* message that has parts is shown as stored; one that has no parts and a
\* content is shown with the single text part of that content; one that has
\* neither is shown with a single empty text part.  So every message shown
\* has parts.
C15_LegacyMigration ==
    lastEvent.op = "loadConversation" /\ lastEvent.convo # None
                                      /\ lastEvent.convo[1].type = "chat" =>
        LET stored == lastEvent.convo[1].messages
        IN  /\ Len(messages) = Len(stored)
            /\ \A k \in 1 .. Len(stored) :
                  /\ "parts" \in DOMAIN messages[k]
                  /\ messages[k].id = stored[k].id
                  /\ messages[k].author = stored[k].author
                  /\ IF "parts" \in DOMAIN stored[k]
                     THEN messages[k] = stored[k]
                     ELSE IF "content" \in DOMAIN stored[k]
                     THEN messages[k].parts = << [type |-> "text",
                                                  text |-> stored[k].content] >>
                     ELSE messages[k].parts = << [type |-> "text", text |-> << >>] >>

\* The stored chat conversation has just been loaded: its first message had
\* a content, its second neither content nor parts, its third parts.
C15_Witness ==
    /\ lastEvent.op = "loadConversation"
    /\ lastEvent.id = "c1"
    /\ Len(messages) >= 3
    /\ DOMAIN lastEvent.convo[1].messages[1] = {"id", "author", "content"}
    /\ messages[1].parts = << TextPart(<<"y", "o">>) >>
    /\ DOMAIN lastEvent.convo[1].messages[2] = {"id", "author"}
    /\ messages[2].parts = << TextPart(<< >>) >>
    /\ messages[3] = lastEvent.convo[1].messages[3]
    /\ messages[3].parts[1].type = "imageGenerationResult"

\* C16: handleRecallGeneration(prompt, params) sets the panel's prompt, model,
\* aspect ratio and image count to prompt, params.model, params.aspectRatio
\* and params.numberOfImages, opens the panel and clears the uploaded image;
\* message list, store, loading flag, input and chat model stay as they are.
C16_Recall ==
    [][lastEvent'.op = "handleRecallGeneration" /\ lastEvent' # lastEvent =>
          LET prompt == lastEvent'.args[1].prompt
              params == lastEvent'.args[1].params
          IN  /\ genPrompt' = prompt
              /\ genModel' = params.model
              /\ genAspectRatio' = params.aspectRatio
              /\ genNumImages' = params.numberOfImages
              /\ showGenerationPanel'
              /\ uploadedImage' = None
              /\ UNCHANGED << messages, store, isLoading, input, model >>]_vars

\* The stored generation result has just been recalled while a request was
\* in flight: the panel holds its prompt and its settings, none of them the
\* default, and the loading flag is still set.
C16_Witness ==
    /\ lastEvent.op = "handleRecallGeneration"
    /\ lastEvent.args = Some([prompt |-> <<"d", "o", "g">>,
                              params |-> [model |-> "imagen-4.0-generate-001",
                                          aspectRatio |-> "1:1",
                                          numberOfImages |-> 1]])
    /\ genPrompt = <<"d", "o", "g">>
    /\ genModel = "imagen-4.0-generate-001" /\ genModel # DefaultImagenModel
    /\ genAspectRatio = "1:1" /\ genAspectRatio # DefaultAspectRatio
    /\ genNumImages = 1 /\ genNumImages # DefaultNumImages
    /\ showGenerationPanel
    /\ isLoading

\* C17: whenever the message list holds at least one message that is not the
\* greeting, the chat model selector is disabled, also when the list holds
\* exactly one such message.
C17_SelectorLocked ==
    (\E k \in 1 .. Len(messages) : messages[k].id # InitialId) => ModelSelectDisabled

\* The selector has just changed the chat model while the list held exactly
\* one message, a USER message whose reply was being awaited.
C17_Witness ==
    /\ lastEvent.op = "edit"
    /\ lastEvent.args = Some([model |-> "gemini-2.5-pro"])
    /\ model = "gemini-2.5-pro"
    /\ Len(messages) = 1
    /\ messages[1].id # InitialId
    /\ messages[1].author = "USER"
    /\ isLoading

\* C18: in every reachable state the generation panel is not open while an
\* uploaded image is pending.
C18_UploadXorPanel ==
    ~(showGenerationPanel /\ uploadedImage # None)

\* A file read has just completed although the panel had been opened while
\* the file was being read: the image is pending and the panel is closed.
C18_Witness ==
    /\ lastEvent.op = "fileToBase64"
    /\ lastEvent.args = Some([panelWasOpen |-> TRUE])
    /\ uploadedImage # None
    /\ ~showGenerationPanel

\* C19: no two messages of the view's list, and no two messages of one
\* stored conversation, have the same id.
C19_DistinctIds(msgs) ==
    \A j, k \in 1 .. Len(msgs) : msgs[j].id = msgs[k].id => j = k

C19_UniqueIds ==
    /\ C19_DistinctIds(messages)
    /\ \A id \in DOMAIN store : C19_DistinctIds(store[id].messages)

\* Two messages with the same id are stored in one conversation.
C19_Witness ==
    \E id \in DOMAIN store : ~C19_DistinctIds(store[id].messages)

\* C20: the contents buildContents makes of a history hold one entry per
\* message that has a text or image part, in the messages' order, with role
\* 'user' for USER and 'model' for MODEL, and with that message's text and
\* image parts in their order (a text as { text }, an image as inline data
\* with its MIME type); generation results are never sent, a message made
\* only of them is dropped, and no entry has an empty part list.
C20_Sent(parts) == {k \in 1 .. Len(parts) : parts[k].type \in {"text", "image"}}

C20_Kept(msgs) == {k \in 1 .. Len(msgs) : C20_Sent(msgs[k].parts) # {}}

C20_Nth(S, j) == CHOOSE k \in S : Cardinality({i \in S : i < k}) = j - 1

C20_BuildContents ==
    lastEvent.op = "buildContents" =>
        LET msgs == lastEvent.messages
            contents == lastEvent.result
        IN  /\ Len(contents) = Cardinality(C20_Kept(msgs))
            /\ \A j \in 1 .. Len(contents) :
                  LET msg == msgs[C20_Nth(C20_Kept(msgs), j)]
                      sent == C20_Sent(msg.parts)
                  IN  /\ DOMAIN contents[j] = {"role", "parts"}
                      /\ contents[j].role = (IF msg.author = "USER" THEN "user"
                                                                      ELSE "model")
                      /\ Len(contents[j].parts) = Cardinality(sent)
                      /\ Len(contents[j].parts) >= 1
                      /\ \A q \in 1 .. Len(contents[j].parts) :
                            LET part == msg.parts[C20_Nth(sent, q)]
                            IN  contents[j].parts[q] =
                                    IF part.type = "text" THEN [text |-> part.text]
                                    ELSE [inlineData |-> [mimeType |-> part.mimeType,
                                                          data |-> part.base64]]

\* A history of a USER image with text, a generation result and a mixed
\* message was converted: two entries, the generation result dropped.
C20_Witness ==
    /\ lastEvent.op = "buildContents"
    /\ Len(lastEvent.messages) = 3
    /\ lastEvent.messages[1].parts = << ImagePart, TextPart(<<"h", "i">>) >>
    /\ lastEvent.messages[2].parts = << GenerationPart >>
    /\ lastEvent.messages[3].parts = << GenerationPart, TextPart(<<"o", "k">>), ImagePart >>
    /\ Len(lastEvent.result) = 2
    /\ lastEvent.result[1].role = "user"
    /\ Len(lastEvent.result[2].parts) = 2

\* C21: when the parent has passed another conversationId while a request was
\* in flight, the request's last saveMessage still saves to the conversation
\* its first saveMessage saved to and creates no conversation; when it has
\* returned, the reply is stored in that conversation and in no other.
C21_Holds(db, id, message) ==
    \E k \in 1 .. Len(StoredMessages(db, id)) : db[id].messages[k] = message

C21_SavedWhereStarted ==
    /\ \A i \in HandlerTasks :
          tasks[i].phase = 2 /\ tasks[i].switched =>
              /\ tasks[i].convoId = tasks[i].startConvoId
              /\ ~tasks[i].isNew
    /\ /\ lastEvent.op = "saveMessage"
       /\ lastEvent.phase = 2
       /\ lastEvent.switched
       /\ IsChat(GetConversation(store, lastEvent.start))
       => /\ C21_Holds(store, lastEvent.start, lastEvent.message[1])
          /\ \A id \in DOMAIN store \ {lastEvent.start} :
                ~C21_Holds(store, id, lastEvent.message[1])

\* A submission that created its conversation has returned after the parent
\* passed the stored conversation "c1": its reply is now the last message of
\* "c1", and the conversation it created holds the USER message alone.
C21_Witness ==
    /\ lastEvent.op = "saveMessage"
    /\ lastEvent.kind = "handleSubmit"
    /\ lastEvent.phase = 2
    /\ lastEvent.switched
    /\ lastEvent.startedNew
    /\ lastEvent.id = "c1"
    /\ lastEvent.start # "c1"
    /\ store["c1"].messages[Len(store["c1"].messages)] = lastEvent.message[1]
    /\ Len(store[lastEvent.start].messages) = 1
    /\ store[lastEvent.start].messages[1].author = "USER"

\* C22: when no handler and no load is suspended, the view's list without the
\* greeting is the message sequence stored for the current conversation (as
\* a load shows it); and a load of the conversation a submission created
\* leaves that submission's placeholder in the list.
C22_ViewMatchesStore ==
    /\ tasks = << >> =>
          WithoutInitial(messages) =
              MigratedMessages(StoredMessages(store, currentConversationIdRef))
    /\ lastEvent.op = "loadConversation" =>
          \A i \in HandlerTasks :
              /\ tasks[i].kind = "handleSubmit"
              /\ tasks[i].modelMessageId # Null
              /\ tasks[i].startedNew
              /\ tasks[i].startConvoId = lastEvent.id
              => \E k \in 1 .. Len(messages) : messages[k].id = tasks[i].modelMessageId

\* At rest after one submission whose new id the parent passed back: the
\* store holds the USER message and the reply, the view only the USER
\* message.
C22_Witness ==
    /\ tasks = << >>
    /\ used.requests = 1
    /\ Len(created) = 1
    /\ conversationId = created[1]
    /\ currentConversationIdRef = created[1]
    /\ Len(store[created[1]].messages) = 2
    /\ store[created[1]].messages[2].author = "MODEL"
    /\ store[created[1]].messages[2].parts # << TextPart(<< >>) >>
    /\ messages = << store[created[1]].messages[1] >>

====
